---- MODULE Spec2Model ----
(***************************************************************************)
(* A model of the two command-line tools of convex_decomp_to_sdf:          *)
(*   generate_sdf_from_mesh.py  (the mesh-to-SDF converter) and            *)
(*   inspect_sdf_in_meshcat.py  (the SDF inspector).                       *)
(* Strings are sequences of one-character strings, so that the path and    *)
(* number formatting of the scripts is computed and not assumed.           *)
(***************************************************************************)
EXTENDS Integers, Sequences, FiniteSets, TLC

\* ------------------------------------------------------------------ bounds
MaxRuns == 2          \* converter invocations in one session
MaxInspectedRuns == 1 \* converter invocations in a session with inspections
MaxPieces == 2        \* longest list the decomposition returns
MaxClicks == 2        \* clicks on the "Stop Simulation" button
MaxAdvances == 2      \* simulator advances while nobody has clicked

\* --------------------------------------------------------- string helpers
Sep == "/"
Dot == "."

Min(a, b) == IF a < b THEN a ELSE b

\* s[i..] and s[..i] of a character sequence (1-based, inclusive).
Drop(s, n) == SubSeq(s, n + 1, Len(s))
Take(s, n) == SubSeq(s, 1, n)

\* str.rfind(c): the last index holding c, 0 when there is none.
RFind(s, c) ==
  LET hits == {i \in 1..Len(s) : s[i] = c}
  IN IF hits = {} THEN 0 ELSE CHOOSE i \in hits : \A j \in hits : j <= i

RECURSIVE RStripSep(_)
RStripSep(s) ==
  IF s # <<>> /\ s[Len(s)] = Sep THEN RStripSep(Take(s, Len(s) - 1)) ELSE s

\* posixpath.split: head (without trailing separators unless it is all
\* separators) and tail (everything after the last separator).
PathSplit(p) ==
  LET i == RFind(p, Sep)
      head == Take(p, i)
      tail == Drop(p, i)
  IN <<IF head # <<>> /\ \E k \in 1..Len(head) : head[k] # Sep
         THEN RStripSep(head) ELSE head,
       tail>>

\* posixpath.splitext: the extension starts at the last dot of the last
\* component, unless that component has only leading dots before it.
PathSplitExt(p) ==
  LET sepIndex == RFind(p, Sep)
      dotIndex == RFind(p, Dot)
  IN IF dotIndex > sepIndex
        /\ \E k \in (sepIndex + 1)..(dotIndex - 1) : p[k] # Dot
       THEN <<Take(p, dotIndex - 1), Drop(p, dotIndex - 1)>>
       ELSE <<p, <<>> >>

\* posixpath.join of two parts.
PathJoin(a, b) ==
  IF b # <<>> /\ b[1] = Sep THEN b
  ELSE IF a = <<>> \/ a[Len(a)] = Sep THEN a \o b
  ELSE a \o <<Sep>> \o b

\* str.split('/') without the empty components.
RECURSIVE Components(_)
Components(p) ==
  IF p = <<>> THEN <<>>
  ELSE LET hits == {i \in 1..Len(p) : p[i] = Sep}
           i == IF hits = {} THEN Len(p) + 1
                ELSE CHOOSE k \in hits : \A j \in hits : k <= j
           first == Take(p, i - 1)
           rest == Components(Drop(p, Min(i, Len(p))))
       IN IF first = <<>> THEN rest ELSE <<first>> \o rest

\* '/'.join(parts)
RECURSIVE JoinSep(_)
JoinSep(parts) ==
  IF parts = <<>> THEN <<>>
  ELSE IF Len(parts) = 1 THEN parts[1]
  ELSE parts[1] \o <<Sep>> \o JoinSep(Tail(parts))

\* posixpath.normpath on the components of an absolute path: "." is dropped
\* and ".." removes the component before it (nothing at the root).
RECURSIVE NormComponents(_, _)
NormComponents(todo, done) ==
  IF todo = <<>> THEN done
  ELSE IF todo[1] = <<Dot>> THEN NormComponents(Tail(todo), done)
  ELSE IF todo[1] = <<Dot, Dot>>
         THEN NormComponents(Tail(todo),
                             IF done = <<>> THEN done ELSE Take(done, Len(done) - 1))
  ELSE NormComponents(Tail(todo), Append(done, todo[1]))

\* The working directory the tools are started in.
Cwd == <<"/", "w">>

\* os.path.abspath: join with the working directory when relative, then
\* normalise.
Abspath(p) ==
  LET full == IF p # <<>> /\ p[1] = Sep THEN p ELSE PathJoin(Cwd, p)
  IN <<Sep>> \o JoinSep(NormComponents(Components(full), <<>>))

\* os.path.commonprefix of two component lists, as a length.
RECURSIVE CommonLen(_, _)
CommonLen(a, b) ==
  IF a = <<>> \/ b = <<>> \/ a[1] # b[1] THEN 0
  ELSE 1 + CommonLen(Tail(a), Tail(b))

\* posixpath.relpath(path, start).
Relpath(path, start) ==
  LET startList == NormComponents(Components(Abspath(start)), <<>>)
      pathList == NormComponents(Components(Abspath(path)), <<>>)
      i == CommonLen(startList, pathList)
      relList == [k \in 1..(Len(startList) - i) |-> <<Dot, Dot>>]
                   \o Drop(pathList, i)
  IN IF relList = <<>> THEN <<Dot>> ELSE JoinSep(relList)


\* ------------------------------------------------------ number formatting
DigitChar(d) == <<"0", "1", "2", "3", "4", "5", "6", "7", "8", "9">>[d + 1]

RECURSIVE Digits(_)
Digits(n) == IF n < 10 THEN <<DigitChar(n)>>
             ELSE Append(Digits(n \div 10), DigitChar(n % 10))

RECURSIVE Pow10(_)
Pow10(e) == IF e = 0 THEN 1 ELSE 10 * Pow10(e - 1)

\* '%0<width>d' % k for k >= 0: zero-padded on the left to at least width.
FormatD(k, width) ==
  LET d == Digits(k)
  IN [i \in 1..(IF Len(d) < width THEN width - Len(d) ELSE 0) |-> "0"] \o d

\* Round n / q to the nearest integer, ties to even (the correctly rounded
\* decimal of an exactly representable value).
RoundHalfEven(n, q) ==
  LET lo == n \div q
      r2 == 2 * (n % q)
  IN IF r2 > q \/ (r2 = q /\ lo % 2 = 1) THEN lo + 1 ELSE lo

\* '{:.4E}'.format(x) for an integer-valued x: one digit, a point, four
\* digits, 'E', the exponent's sign and at least two exponent digits.
SciFormat(x) ==
  LET a == IF x < 0 THEN -x ELSE x
      e0 == Len(Digits(a)) - 1
      m0 == IF e0 <= 4 THEN a * Pow10(4 - e0) ELSE RoundHalfEven(a, Pow10(e0 - 4))
      e == IF m0 = 100000 THEN e0 + 1 ELSE e0
      m == IF m0 = 100000 THEN 10000 ELSE m0
      d == Digits(m)
      body == IF a = 0 THEN <<"0", ".", "0", "0", "0", "0", "E", "+", "0", "0">>
              ELSE <<d[1], ".">> \o Drop(d, 1) \o <<"E", "+">> \o FormatD(e, 2)
  IN IF x < 0 THEN <<"-">> \o body ELSE body


\* --------------------------------------------------------------- literals
PartsSuffix == <<"_", "p", "a", "r", "t", "s">>
PieceInfix == <<"_", "c", "o", "n", "v", "e", "x", "_", "p", "i", "e", "c", "e", "_">>
ObjExt == <<".", "o", "b", "j">>
SdfExt == <<".", "s", "d", "f">>
SimpleVisSuffix == <<"_", "s", "i", "m", "p", "l", "e", "_", "v", "i", "s">>
CollisionPrefix == <<"c", "o", "l", "l", "i", "s", "i", "o", "n", "_">>
BodyLinkSuffix == <<"_", "b", "o", "d", "y", "_", "l", "i", "n", "k">>
IdentityPose == <<"0", " ", "0", " ", "0", " ", "0", " ", "0", " ", "0">>
SdfVersion == <<"1", ".", "5">>
Xyz == <<"x", "y", "z">>

\* Command-line arguments of a session: an absolute path, a path relative to
\* the working directory that resolves to the root directory, and a path
\* at which there is no file.
ArgA == <<"/", "d", "/", "m", ".", "o", "b", "j">>
ArgC == <<".", ".", "/", "a", ".", "b", ".", "o", "b", "j">>
ArgMissing == <<"/", "d", "/", "n", "o", "n", "e", ".", "o", "b", "j">>

\* ------------------------------------------------- the libraries' meshes
\* A mesh is what the mesh library knows of it: a triangle count, a volume
\* and the inertia tensor at unit density.  MeshB's tensor is one a library
\* could return with unequal (i,j) and (j,i) entries.
MeshA == [kind |-> "mesh", tris |-> 4, volume |-> 3,
          inertia |-> << <<5, -1, 0>>, <<-1, 6, 2>>, <<0, 2, 7>> >>]
MeshB == [kind |-> "mesh", tris |-> 2, volume |-> 1,
          inertia |-> << <<1, 2, 3>>, <<4, 5, 6>>, <<7, 8, 9>> >>]
MeshFiles == {[arg |-> ArgA, content |-> MeshA], [arg |-> ArgC, content |-> MeshB]}

\* mesh.apply_scale(scale): volume scales with the cube, inertia at unit
\* density with the fifth power.
ApplyScale(m, scale) ==
  [m EXCEPT !.volume = @ * scale * scale * scale,
            !.inertia = [i \in 1..3 |-> [j \in 1..3 |->
                           @[i][j] * scale * scale * scale * scale * scale]]]

\* mesh.simplify_quadric_decimation(target_tris)
Simplify(m, target_tris) ==
  IF m.tris > target_tris
    THEN [m EXCEPT !.tris = target_tris, !.volume = @ - 1]
    ELSE m

\* Piece k of a decomposition into n pieces.
ConvexPiece(n, k) ==
  [kind |-> "mesh", tris |-> 4, volume |-> k + 1,
   inertia |-> [i \in 1..3 |-> [j \in 1..3 |-> IF i = j THEN 10 * n + k ELSE 0]]]

\* What a call of trimesh.decomposition.convex_decomposition can do: raise,
\* return one mesh that is not a list, or return a list of n meshes.
DecompResults ==
  {[kind |-> "raise", n |-> 0], [kind |-> "mesh", n |-> 1]}
    \cup {[kind |-> "list", n |-> k] : k \in 0..MaxPieces}

\* The numeric options of a run (argparse defaults, and another choice).
ParamSets ==
  {[scale |-> 1, density |-> 2000, target_tris |-> 1000, maxhulls |-> 12],
   [scale |-> 2, density |-> 1000, target_tris |-> 3, maxhulls |-> 1]}

\* ------------------------------------------------------------------ state
VARIABLES
  fs,             \* files on disk: path -> [content, writer (the run, 0 = given)]
  dirs,           \* directories made by os.makedirs
  vhacd,          \* the decomposition library: its answers so far, by options
  runs,           \* converter processes started so far
  history,        \* completed runs: [run, args, doc (the descriptor written)]
  cPc,            \* converter: position in the script
  args,           \* converter: parsed command line
  mesh_path,      \* converter: os.path.abspath(args.mesh_file)
  mesh,           \* converter: the loaded, scaled mesh
  link_item,      \* converter: children of the link element, in order
  convex_pieces,  \* converter: do_collision_mesh_simplification's pieces
  out_paths,      \* converter: do_collision_mesh_simplification's out_paths
  log,            \* converter: file-system and library calls of this run
  errors,         \* converter: messages given to logging.error in this run
  uncaught,       \* converter: the call whose exception ended the run
  exitCode,       \* converter: process exit status
  iPc,            \* inspector: position in the script
  iArgs,          \* inspector: parsed command line
  sdf,            \* inspector: os.path.abspath(args.sdf)
  meshcat,        \* inspector: the visualization server is up
  browser,        \* inspector: a browser window was opened
  scene,          \* inspector: the document loaded into the plant
  button,         \* inspector: the "Stop Simulation" button exists
  clicks,         \* inspector: clicks on the button so far
  simTime,        \* inspector: simulator context time
  iErrors,        \* inspector: messages given to logging.error
  iExitCode       \* inspector: process exit status

diskVars == <<fs, dirs>>
sessionVars == <<vhacd, runs, history>>
convVars == <<cPc, args, mesh_path, mesh, link_item, convex_pieces, out_paths, log, errors,
              uncaught, exitCode>>
inspVars == <<iPc, iArgs, sdf, meshcat, browser, scene, button, clicks, simTime,
              iErrors, iExitCode>>
vars == <<diskVars, sessionVars, convVars, inspVars>>

NoArgs == [mesh_file |-> <<>>, do_visual_simplification |-> FALSE,
           preview |-> FALSE, params |-> CHOOSE p \in ParamSets : p.scale = 1]
NoMesh == [kind |-> "none", tris |-> 0, volume |-> 0,
           inertia |-> [i \in 1..3 |-> [j \in 1..3 |-> 0]]]
NoInspectorArgs == [sdf |-> <<>>, noopen |-> FALSE]
NoScene == [kind |-> "none"]

Exists(p) == p \in DOMAIN fs

\* A faulty variant: the exit call carries no failure status.
ExitStatusSuccess(code) == 0

\* sys.exit(-1): the status the parent sees is the low byte.
ExitStatus(code) == code % 256

ConvInit ==
  /\ cPc = "idle" /\ args = NoArgs /\ mesh_path = <<>> /\ mesh = NoMesh
  /\ link_item = <<>>
  /\ convex_pieces = <<>> /\ out_paths = <<>> /\ log = <<>> /\ errors = <<>>
  /\ uncaught = "" /\ exitCode = 0

InspInit ==
  /\ iPc = "idle" /\ iArgs = NoInspectorArgs /\ sdf = <<>> /\ meshcat = FALSE
  /\ browser = FALSE /\ scene = NoScene /\ button = FALSE /\ clicks = 0
  /\ simTime = 0 /\ iErrors = <<>> /\ iExitCode = 0

Init ==
  /\ \E f \in MeshFiles :
       fs = (Abspath(f.arg) :> [content |-> f.content, writer |-> 0])
  /\ dirs = {}
  /\ vhacd = <<>>
  /\ runs = 0 /\ history = {}
  /\ ConvInit /\ InspInit


\* ------------------------------------------- the converter's pure parts
\* dir_path, mesh_filename = os.path.split(input_mesh_path)
DirPath(input_mesh_path) == PathSplit(input_mesh_path)[1]
MeshFilename(input_mesh_path) == PathSplit(input_mesh_path)[2]

\* mesh_minus_ext, _ = os.path.splitext(mesh_filename)
MeshMinusExt(input_mesh_path) == PathSplitExt(MeshFilename(input_mesh_path))[1]

\* A faulty variant: the extension is appended to the whole file name.
SdfPathKeepingExt(input_mesh_path) == input_mesh_path \o SdfExt

\* sdf_path = os.path.join(dir_path, mesh_minus_ext + ".sdf")
SdfPath(input_mesh_path) ==
  PathJoin(DirPath(input_mesh_path), MeshMinusExt(input_mesh_path) \o SdfExt)

\* link_name = "{}_body_link".format(robot_name)
LinkName(input_mesh_path) == MeshMinusExt(input_mesh_path) \o BodyLinkSuffix

\* A faulty variant: the decimated mesh is written over the input mesh.
OutputMeshPathInPlace(input_mesh_path) == input_mesh_path

\* do_visual_mesh_simplification: mesh_minus_ext + "_simple_vis" + mesh_ext
OutputMeshPath(input_mesh_path) ==
  LET parts == PathSplitExt(input_mesh_path)
  IN parts[1] \o SimpleVisSuffix \o parts[2]

\* do_collision_mesh_simplification: out_dir
OutDir(mesh_name, mesh_dir) == PathJoin(mesh_dir, mesh_name \o PartsSuffix)

\* A faulty variant: the index is left out of the piece's name.
PieceNameWithoutIndex(mesh_name, k) == mesh_name \o PieceInfix \o ObjExt

\* piece_name = '%s_convex_piece_%03d.obj' % (mesh_name, k)
PieceName(mesh_name, k) == mesh_name \o PieceInfix \o FormatD(k, 3) \o ObjExt

\* full_path = os.path.join(out_dir, piece_name)
FullPath(mesh_name, mesh_dir, k) ==
  PathJoin(OutDir(mesh_name, mesh_dir), PieceName(mesh_name, k))

\* name="collision_%04d" % k
CollisionName(k) == CollisionPrefix \o FormatD(k, 4)

\* calc_mesh_inertia: (mesh.mass, mesh.moment_inertia) at the given density.
CalcMeshInertia(m, density) ==
  <<density * m.volume,
    [i \in 1..3 |-> [j \in 1..3 |-> density * m.inertia[i][j]]]>>

\* A faulty variant: the indices are swapped.
InertiaEntryTransposed(I, i, j) == I[j][i]

\* The entry the inner loop formats: I[i, j].
InertiaEntry(I, i, j) == I[i][j]

\* for j in range(i, 3): the first j of row i.
InertiaRowStart(i) == i

\* for i in range(3): for j in range(i, 3): one element "i"+"xyz"[i]+"xyz"[j]
\* per visited pair, appended in visiting order (indices are 1-based here).
RECURSIVE InertiaLoop(_, _, _, _)
InertiaLoop(I, i, j, items) ==
  IF i > 3 THEN items
  ELSE IF j > 3 THEN InertiaLoop(I, i + 1, InertiaRowStart(i + 1), items)
  ELSE InertiaLoop(I, i, j + 1,
         Append(items, [tag |-> <<"i", Xyz[i], Xyz[j]>>,
                        text |-> SciFormat(InertiaEntry(I, i, j))]))

InertialItem(m, density) ==
  LET mi == CalcMeshInertia(m, density)
  IN [tag |-> "inertial",
      mass |-> SciFormat(mi[1]),
      inertia |-> InertiaLoop(mi[2], 1, InertiaRowStart(1), <<>>)]

\* The visual element: uri relative to dir_path, scale printed three times.
VisualItem(visual_mesh_filename, dir_path, scale) ==
  [tag |-> "visual", name |-> "visual",
   uri |-> Relpath(visual_mesh_filename, dir_path),
   scale |-> SciFormat(scale) \o <<" ">> \o SciFormat(scale) \o <<" ">>
               \o SciFormat(scale)]

\* for k, new_model_path in enumerate(collision_paths): one collision
\* element per path, uri relative to dir_path, marked convex.
CollisionItems(collision_paths, dir_path) ==
  [k \in 1..Len(collision_paths) |->
     [tag |-> "collision", name |-> CollisionName(k - 1),
      uri |-> Relpath(collision_paths[k], dir_path),
      declare_convex |-> TRUE]]

\* A faulty variant: a result that is not a list is dropped, not wrapped.
PiecesOfListOnly(result) ==
  IF result.kind = "mesh" THEN <<>>
  ELSE [k \in 1..result.n |-> ConvexPiece(result.n, k - 1)]

\* if not isinstance(convex_pieces_new, list): wrap it; convex_pieces += ...
PiecesOf(result) ==
  IF result.kind = "mesh" THEN <<ConvexPiece(1, 0)>>
  ELSE [k \in 1..result.n |-> ConvexPiece(result.n, k - 1)]

\* The document ET.ElementTree(root_item).write serialises.
SdfDocument(input_mesh_path, children) ==
  [kind |-> "sdf", version |-> SdfVersion,
   model |-> MeshMinusExt(input_mesh_path),
   link |-> LinkName(input_mesh_path),
   children |-> children]

Event(op, path) == [op |-> op, path |-> path]

\* Files of the session that a command line can name.
InputMeshArgs == {f.arg : f \in {g \in MeshFiles : Exists(Abspath(g.arg))}}

ConverterArgs ==
  [mesh_file : InputMeshArgs \cup {ArgMissing},
   do_visual_simplification : BOOLEAN,
   preview : BOOLEAN,
   params : ParamSets]


\* ------------------------------------------------- the converter's steps
\* A converter process is started from the shell with a command line.
StartConversion(limit) ==
  /\ cPc = "idle" /\ iPc = "idle" /\ runs < limit
  /\ \E a \in ConverterArgs : args' = a
  /\ runs' = runs + 1
  /\ cPc' = "main"
  /\ UNCHANGED <<diskVars, vhacd, history, mesh_path, mesh, link_item,
                 convex_pieces, out_paths, log, errors, uncaught, exitCode,
                 inspVars>>

StartConverter == StartConversion(MaxRuns)

StartConverterOnce == StartConversion(MaxInspectedRuns)

\* __main__: the existence check of the positional argument.
ConverterMain ==
  /\ cPc = "main"
  /\ mesh_path' = Abspath(args.mesh_file)
  /\ IF Exists(mesh_path')
       THEN /\ cPc' = "load"
            /\ UNCHANGED <<errors, exitCode>>
       ELSE /\ errors' = Append(errors, "No mesh found")
            /\ exitCode' = ExitStatus(-1)
            /\ cPc' = "exited"
  /\ UNCHANGED <<diskVars, sessionVars, args, mesh, link_item, convex_pieces,
                 out_paths, log, uncaught, inspVars>>

\* An exception nothing catches ends the process with a traceback.
Abort(where) ==
  /\ uncaught' = where
  /\ exitCode' = 1
  /\ cPc' = "aborted"

\* trimesh.load and apply_scale, then the root, model, link and pose elements.
LoadMesh ==
  /\ cPc = "load"
  /\ \/ /\ fs[mesh_path].content.kind = "mesh"
        /\ mesh' = ApplyScale(fs[mesh_path].content, args.params.scale)
        /\ link_item' = <<[tag |-> "pose", text |-> IdentityPose]>>
        /\ log' = Append(log, Event("load", mesh_path))
        /\ cPc' = "inertia"
        /\ UNCHANGED <<uncaught, exitCode>>
     \/ /\ Abort("load")
        /\ UNCHANGED <<mesh, link_item, log>>
  /\ UNCHANGED <<diskVars, sessionVars, args, mesh_path, convex_pieces, out_paths, errors,
                 inspVars>>

\* calc_mesh_inertia and the inertial element.
SetUpInertia ==
  /\ cPc = "inertia"
  /\ \/ /\ link_item' = Append(link_item, InertialItem(mesh, args.params.density))
        /\ log' = Append(log, Event("inertia", mesh_path))
        /\ cPc' = "visual"
        /\ UNCHANGED <<uncaught, exitCode>>
     \/ /\ Abort("inertia")
        /\ UNCHANGED <<link_item, log>>
  /\ UNCHANGED <<diskVars, sessionVars, args, mesh_path, mesh, convex_pieces, out_paths,
                 errors, inspVars>>

\* The visual element, after do_visual_mesh_simplification when asked for:
\* it reads the input file again and writes the decimated mesh beside it.
SetUpVisual ==
  /\ cPc = "visual"
  /\ \/ /\ ~args.do_visual_simplification
        /\ link_item' = Append(link_item,
                          VisualItem(mesh_path, DirPath(mesh_path), args.params.scale))
        /\ cPc' = "makedirs"
        /\ UNCHANGED <<fs, log, uncaught, exitCode>>
     \/ /\ args.do_visual_simplification
        /\ fs[mesh_path].content.kind = "mesh"
        /\ fs' = (OutputMeshPath(mesh_path) :>
                    [content |-> Simplify(fs[mesh_path].content,
                                          args.params.target_tris),
                     writer |-> runs]) @@ fs
        /\ log' = Append(log, Event("write_visual", OutputMeshPath(mesh_path)))
        /\ link_item' = Append(link_item,
                          VisualItem(OutputMeshPath(mesh_path), DirPath(mesh_path),
                                     args.params.scale))
        /\ cPc' = "makedirs"
        /\ UNCHANGED <<uncaught, exitCode>>
     \/ /\ args.do_visual_simplification
        /\ Abort("decimation")
        /\ UNCHANGED <<fs, log, link_item>>
  /\ UNCHANGED <<dirs, sessionVars, args, mesh_path, mesh, convex_pieces, out_paths, errors,
                 inspVars>>

\* do_collision_mesh_simplification: os.makedirs(out_dir, exist_ok=True).
MakeDirs ==
  /\ cPc = "makedirs"
  /\ dirs' = dirs \cup {OutDir(MeshMinusExt(mesh_path), DirPath(mesh_path))}
  /\ log' = Append(log, Event("makedirs",
                              OutDir(MeshMinusExt(mesh_path), DirPath(mesh_path))))
  /\ cPc' = IF args.preview THEN "show_mesh" ELSE "decompose"
  /\ UNCHANGED <<fs, sessionVars, args, mesh_path, mesh, link_item, convex_pieces,
                 out_paths, errors, uncaught, exitCode, inspVars>>

\* mesh.show(): returns when the preview window is closed.
ShowMesh ==
  /\ cPc = "show_mesh"
  /\ cPc' = "decompose"
  /\ UNCHANGED <<diskVars, sessionVars, args, mesh_path, mesh, link_item, convex_pieces,
                 out_paths, log, errors, uncaught, exitCode, inspVars>>

\* A faulty variant: no try block, so the library's exception ends the run.
DecomposeUncaught ==
  /\ cPc = "decompose"
  /\ \E result \in DecompResults :
       /\ args.params \in DOMAIN vhacd => result = vhacd[args.params]
       /\ vhacd' = (args.params :> result) @@ vhacd
       /\ IF result.kind = "raise"
            THEN /\ Abort("decompose")
                 /\ UNCHANGED convex_pieces
            ELSE /\ convex_pieces' = PiecesOf(result)
                 /\ cPc' = IF args.preview THEN "show_scene" ELSE "export"
                 /\ UNCHANGED <<uncaught, exitCode>>
  /\ log' = Append(log, Event("decompose", mesh_path))
  /\ UNCHANGED <<diskVars, runs, history, args, mesh_path, mesh, link_item,
                 out_paths, errors, inspVars>>

\* The try block.  The library is a function of its arguments: what it
\* does for an option set is open until the first call with it and is the
\* same at every later call.  An exception is logged and leaves
\* convex_pieces empty.
Decompose ==
  /\ cPc = "decompose"
  /\ \E result \in DecompResults :
       /\ args.params \in DOMAIN vhacd => result = vhacd[args.params]
       /\ vhacd' = (args.params :> result) @@ vhacd
       /\ IF result.kind = "raise"
            THEN /\ convex_pieces' = <<>>
                 /\ errors' = Append(errors, "Problem performing decomposition")
            ELSE /\ convex_pieces' = PiecesOf(result)
                 /\ UNCHANGED errors
  /\ log' = Append(log, Event("decompose", mesh_path))
  /\ cPc' = IF args.preview THEN "show_scene" ELSE "export"
  /\ UNCHANGED <<diskVars, runs, history, args, mesh_path, mesh, link_item, out_paths,
                 uncaught, exitCode, inspVars>>

\* scene.show(): returns when the preview window is closed.
ShowScene ==
  /\ cPc = "show_scene"
  /\ cPc' = "export"
  /\ UNCHANGED <<diskVars, sessionVars, args, mesh_path, mesh, link_item, convex_pieces,
                 out_paths, log, errors, uncaught, exitCode, inspVars>>

\* A faulty variant: a failed export is swallowed and the loop goes on.
ExportPieceTolerant ==
  /\ cPc = "export"
  /\ Len(out_paths) < Len(convex_pieces)
  /\ LET k == Len(out_paths)
         full_path == FullPath(MeshMinusExt(mesh_path), DirPath(mesh_path), k)
     IN \/ /\ fs' = (full_path :> [content |-> convex_pieces[k + 1],
                                   writer |-> runs]) @@ fs
           /\ out_paths' = Append(out_paths, full_path)
           /\ log' = Append(log, Event("export", full_path))
        \/ /\ out_paths' = Append(out_paths, full_path)
           /\ UNCHANGED <<fs, log>>
  /\ UNCHANGED <<dirs, sessionVars, cPc, args, mesh_path, mesh, link_item,
                 convex_pieces, errors, uncaught, exitCode, inspVars>>

\* One iteration of the export loop: piece k goes to full_path.
ExportPiece ==
  /\ cPc = "export"
  /\ Len(out_paths) < Len(convex_pieces)
  /\ LET k == Len(out_paths)
         full_path == FullPath(MeshMinusExt(mesh_path), DirPath(mesh_path), k)
     IN \/ /\ fs' = (full_path :> [content |-> convex_pieces[k + 1],
                                   writer |-> runs]) @@ fs
           /\ out_paths' = Append(out_paths, full_path)
           /\ log' = Append(log, Event("export", full_path))
           /\ UNCHANGED <<cPc, uncaught, exitCode>>
        \/ /\ Abort("export")
           /\ UNCHANGED <<fs, out_paths, log>>
  /\ UNCHANGED <<dirs, sessionVars, args, mesh_path, mesh, link_item, convex_pieces, errors,
                 inspVars>>

\* A faulty variant: the collision loop walks the piece files found in the
\* parts directory.
CollisionPathsFromListing ==
  LET present == {k \in 0..MaxPieces :
                    Exists(FullPath(MeshMinusExt(mesh_path), DirPath(mesh_path), k))}
  IN [i \in 1..Cardinality(present) |->
        FullPath(MeshMinusExt(mesh_path), DirPath(mesh_path), i - 1)]

\* The paths the collision loop of create_sdf_with_convex_decomp walks:
\* the list do_collision_mesh_simplification returned.
CollisionPaths == out_paths

\* After the export loop: the collision elements, then the one write.
WriteSdf ==
  /\ cPc = "export"
  /\ Len(out_paths) = Len(convex_pieces)
  /\ LET children == link_item \o CollisionItems(CollisionPaths, DirPath(mesh_path))
         doc == SdfDocument(mesh_path, children)
     IN /\ link_item' = children
        /\ fs' = (SdfPath(mesh_path) :> [content |-> doc, writer |-> runs]) @@ fs
        /\ history' = history \cup {[run |-> runs, args |-> args, doc |-> doc]}
  /\ log' = Append(log, Event("write_sdf", SdfPath(mesh_path)))
  /\ cPc' = "done"
  /\ UNCHANGED <<dirs, vhacd, runs, args, mesh_path, mesh, convex_pieces,
                 out_paths, errors, uncaught, exitCode, inspVars>>

\* The process is gone: its memory with it.
ExitConverter ==
  /\ cPc \in {"done", "exited", "aborted"}
  /\ cPc' = "idle" /\ args' = NoArgs /\ mesh_path' = <<>> /\ mesh' = NoMesh
  /\ link_item' = <<>>
  /\ convex_pieces' = <<>> /\ out_paths' = <<>> /\ log' = <<>> /\ errors' = <<>>
  /\ uncaught' = "" /\ exitCode' = 0
  /\ UNCHANGED <<diskVars, sessionVars, inspVars>>

ConverterStep ==
  \/ ConverterMain \/ LoadMesh \/ SetUpInertia \/ SetUpVisual \/ MakeDirs
  \/ ShowMesh \/ Decompose \/ ShowScene \/ ExportPiece \/ WriteSdf


\* -------------------------------------------------- the inspector's steps
\* simulator.AdvanceTo(simulator.get_context().get_time() + 2.0)
AdvanceStep == 2

\* while meshcat.GetButtonClicks("Stop Simulation") < 1
StopThreshold == 1

\* A faulty variant: the comparison lets a count of one through.
KeepRunningAtThreshold(n) == n <= StopThreshold

\* The loop condition, on the click count read at the check.
KeepRunning(n) == n < StopThreshold

\* The descriptors a command line of the session can name.
InspectorArgs ==
  [sdf : {SdfPath(Abspath(a)) : a \in InputMeshArgs}, noopen : BOOLEAN]

\* __main__ up to the absolute path of the positional argument.
StartInspector ==
  /\ cPc = "idle" /\ iPc = "idle"
  /\ \E a \in InspectorArgs : iArgs' = a /\ sdf' = Abspath(a.sdf)
  /\ iPc' = "main"
  /\ UNCHANGED <<diskVars, sessionVars, convVars, meshcat, browser, scene,
                 button, clicks, simTime, iErrors, iExitCode>>

\* __main__: the existence check of the positional argument.
InspectorMain ==
  /\ iPc = "main"
  /\ IF Exists(sdf)
       THEN /\ iPc' = "visualizer"
            /\ UNCHANGED <<iErrors, iExitCode>>
       ELSE /\ iErrors' = Append(iErrors, "No SDF found")
            /\ iExitCode' = ExitStatus(-1)
            /\ iPc' = "exited"
  /\ UNCHANGED <<diskVars, sessionVars, convVars, iArgs, sdf, meshcat, browser,
                 scene, button, clicks, simTime>>

\* Meshcat(), and webbrowser.open_new unless --noopen.
StartVisualizer ==
  /\ iPc = "visualizer"
  /\ meshcat' = TRUE
  /\ browser' = ~iArgs.noopen
  /\ iPc' = "build"
  /\ UNCHANGED <<diskVars, sessionVars, convVars, iArgs, sdf, scene, button, clicks,
                 simTime, iErrors, iExitCode>>

\* The diagram: the model parsed from the file, welded, two visualizers;
\* then the simulator and the button.
BuildScene ==
  /\ iPc = "build"
  /\ scene' = fs[sdf].content
  /\ button' = TRUE
  /\ iPc' = "loop"
  /\ UNCHANGED <<diskVars, sessionVars, convVars, iArgs, sdf, meshcat, browser, clicks,
                 simTime, iErrors, iExitCode>>

\* The user clicks the button in the browser.
ClickStop ==
  /\ button /\ clicks < MaxClicks
  /\ clicks' = clicks + 1
  /\ UNCHANGED <<diskVars, sessionVars, convVars, iPc, iArgs, sdf, meshcat, browser,
                 scene, button, simTime, iErrors, iExitCode>>

\* The while condition.  With no click the model follows the loop for
\* MaxAdvances iterations and then only waits for a click.
LoopCheck ==
  /\ iPc = "loop"
  /\ IF KeepRunning(clicks)
       THEN /\ simTime < MaxAdvances * AdvanceStep
            /\ iPc' = "advance"
       ELSE iPc' = "delete"
  /\ UNCHANGED <<diskVars, sessionVars, convVars, iArgs, sdf, meshcat, browser, scene,
                 button, clicks, simTime, iErrors, iExitCode>>

\* The loop body.
Advance ==
  /\ iPc = "advance"
  /\ simTime' = simTime + AdvanceStep
  /\ iPc' = "loop"
  /\ UNCHANGED <<diskVars, sessionVars, convVars, iArgs, sdf, meshcat, browser, scene,
                 button, clicks, iErrors, iExitCode>>

\* meshcat.DeleteButton("Stop Simulation"), the last statement.
DeleteButton ==
  /\ iPc = "delete"
  /\ button' = FALSE
  /\ iPc' = "done"
  /\ UNCHANGED <<diskVars, sessionVars, convVars, iArgs, sdf, meshcat, browser, scene,
                 clicks, simTime, iErrors, iExitCode>>

\* The process is gone: its memory, server and button with it.
ExitInspector ==
  /\ iPc \in {"done", "exited"}
  /\ iPc' = "idle" /\ iArgs' = NoInspectorArgs /\ sdf' = <<>> /\ meshcat' = FALSE
  /\ browser' = FALSE /\ scene' = NoScene /\ button' = FALSE /\ clicks' = 0
  /\ simTime' = 0 /\ iErrors' = <<>> /\ iExitCode' = 0
  /\ UNCHANGED <<diskVars, sessionVars, convVars>>

InspectorStep ==
  \/ InspectorMain \/ StartVisualizer \/ BuildScene \/ LoopCheck \/ Advance
  \/ DeleteButton

\* ---------------------------------------------------------- specifications
\* Sessions of the converter: runs one after the other on one disk.
Next == StartConverter \/ ConverterStep \/ ExitConverter

Spec == Init /\ [][Next]_vars

\* Sessions of both tools on one disk, one process at a time.  A running
\* inspector takes its next step (AdvanceTo returns after two seconds of
\* wall time); nothing obliges the user to click, and nothing obliges the
\* user to close a preview window of the converter.
ToolsNext ==
  \/ StartConverterOnce \/ ConverterStep \/ ExitConverter
  \/ StartInspector \/ InspectorStep \/ ClickStop \/ ExitInspector

ToolsSpec == Init /\ [][ToolsNext]_vars /\ WF_vars(InspectorStep)


\* ------------------------------------------------------ reading the state
Range(q) == {q[i] : i \in DOMAIN q}

EventsOf(op) == SelectSeq(log, LAMBDA e : e.op = op)

ItemsOf(children, tag) == SelectSeq(children, LAMBDA e : e.tag = tag)

TagsOf(children) == [i \in DOMAIN children |-> children[i].tag]

\* Files this run has written so far.
WrittenByRun == {p \in DOMAIN fs : fs[p].writer = runs}

\* Descriptor files on disk.
Descriptors == {p \in DOMAIN fs : fs[p].content.kind = "sdf"}

\* The file a uri of the descriptor at path d names.
Referenced(d, uri) == PathJoin(PathSplit(d)[1], uri)

\* What the paths of the session's two meshes must be, written out.
ExpectedSdf(arg) ==
  IF arg = ArgA THEN <<"/", "d", "/", "m", ".", "s", "d", "f">>
  ELSE <<"/", "a", ".", "b", ".", "s", "d", "f">>

ExpectedPiecePrefix(arg) ==
  IF arg = ArgA
    THEN <<"/", "d", "/", "m", "_", "p", "a", "r", "t", "s", "/",
           "m", "_", "c", "o", "n", "v", "e", "x", "_",
           "p", "i", "e", "c", "e", "_">>
    ELSE <<"/", "a", ".", "b", "_", "p", "a", "r", "t", "s", "/",
           "a", ".", "b", "_", "c", "o", "n", "v", "e", "x", "_",
           "p", "i", "e", "c", "e", "_">>

ExpectedUriPrefix(arg) ==
  IF arg = ArgA
    THEN <<"m", "_", "p", "a", "r", "t", "s", "/",
           "m", "_", "c", "o", "n", "v", "e", "x", "_",
           "p", "i", "e", "c", "e", "_">>
    ELSE <<"a", ".", "b", "_", "p", "a", "r", "t", "s", "/",
           "a", ".", "b", "_", "c", "o", "n", "v", "e", "x", "_",
           "p", "i", "e", "c", "e", "_">>

OneDigit == <<"0", "1", "2", "3", "4", "5", "6", "7", "8", "9">>


\* ----------------------------------------------------------------- claims
\* The decomposition call of this run has been made.
Decomposed == EventsOf("decompose") # <<>>

\* What the decomposition call of this run did.
DecompResult == vhacd[args.params]

\* C1: when a converter run completes, the descriptor it wrote has as many
\* collision elements as the path list do_collision_mesh_simplification
\* returned, which is the number of pieces the decomposition call returned
\* (a result that is not a list counting as one piece) and the number of
\* piece files exported in the run.
C1_CollisionCount ==
  cPc = "done" =>
    LET doc == fs[SdfPath(mesh_path)].content
        returned == IF DecompResult.kind = "list" THEN DecompResult.n
                    ELSE IF DecompResult.kind = "mesh" THEN 1 ELSE 0
        pieceFiles == WrittenByRun \ {SdfPath(mesh_path), OutputMeshPath(mesh_path)}
    IN /\ Len(ItemsOf(doc.children, "collision")) = Len(out_paths)
       /\ Len(out_paths) = returned
       /\ Len(EventsOf("export")) = returned
       /\ Cardinality(pieceFiles) = returned

C1_Witness ==
  /\ cPc = "done"
  /\ DecompResult.kind = "mesh"
  /\ Len(ItemsOf(fs[SdfPath(mesh_path)].content.children, "collision")) = 1

\* C2: when the decomposition call raises, the error is logged, the piece
\* list is empty, no piece file is exported, nothing ends the run early,
\* and the descriptor the run writes holds the pose, inertial and visual
\* elements and no collision element.
C2_DecompositionFailureTolerated ==
  (Decomposed /\ DecompResult.kind = "raise") =>
    /\ "Problem performing decomposition" \in Range(errors)
    /\ convex_pieces = <<>> /\ out_paths = <<>>
    /\ EventsOf("export") = <<>>
    /\ WrittenByRun \subseteq {SdfPath(mesh_path), OutputMeshPath(mesh_path)}
    /\ uncaught = "" /\ exitCode = 0
    /\ cPc \in {"show_scene", "export", "done"}
    /\ cPc = "export" => Len(out_paths) = Len(convex_pieces)
    /\ cPc = "done" =>
         /\ SdfPath(mesh_path) \in WrittenByRun
         /\ TagsOf(fs[SdfPath(mesh_path)].content.children)
              = <<"pose", "inertial", "visual">>

C2_Witness ==
  /\ cPc = "done" /\ Decomposed /\ DecompResult.kind = "raise"
  /\ fs[SdfPath(mesh_path)].writer = runs
  /\ ItemsOf(fs[SdfPath(mesh_path)].content.children, "collision") = <<>>


\* C3: in both tools a positional path that does not exist ends the process
\* with an error logged and a non-zero status before anything else happens:
\* the converter has loaded nothing, made no directory and written no file;
\* the inspector has started no server, opened no browser, built no scene.
\* A run is past its check without having exited only if the path exists.
C3_MissingInputExitsFirst ==
  /\ cPc \notin {"idle", "main"} => (cPc = "exited" <=> ~Exists(mesh_path))
  /\ cPc = "exited" =>
       /\ exitCode # 0
       /\ errors = <<"No mesh found">>
       /\ log = <<>> /\ WrittenByRun = {} /\ mesh = NoMesh /\ link_item = <<>>
  /\ iPc \notin {"idle", "main"} =>
       (iPc = "exited" <=> ~Exists(Abspath(iArgs.sdf)))
  /\ iPc = "exited" =>
       /\ iExitCode # 0
       /\ iErrors = <<"No SDF found">>
       /\ ~meshcat /\ ~browser /\ ~button /\ scene = NoScene /\ simTime = 0

\* An inspector exits on the missing descriptor on a disk that a converter,
\* given a missing mesh path, has left as it was.
C3_Witness ==
  /\ iPc = "exited" /\ iExitCode = 255
  /\ runs = 1 /\ dirs = {} /\ Cardinality(DOMAIN fs) = 1

\* C4: two completed converter runs with the same command line wrote the
\* same descriptor, whatever the first (or any run between them) left on
\* disk.
C4_RerunSameDescriptor ==
  \A h1, h2 \in history : h1.args = h2.args => h1.doc = h2.doc

\* A second run with the command line of the first, with visual
\* simplification and pieces, so that every kind of file was there already.
C4_Witness ==
  \E h1, h2 \in history :
    /\ h1.run # h2.run /\ h1.args = h2.args
    /\ h1.args.do_visual_simplification
    /\ ItemsOf(h1.doc.children, "collision") # <<>>

\* C5: each iteration of the inspector's loop advances simulated time by the
\* same step; from the loop check the script goes on to advance exactly
\* when the click count is below 1 and to the button's deletion otherwise,
\* so it is past the loop only with a click; and once there is a click the
\* script reaches its end, the button deleted.
C5_StopButtonLoop ==
  /\ [][iPc = "advance" /\ iPc' # "advance" => simTime' = simTime + 2]_vars
  /\ [][simTime' # simTime => (iPc = "advance" \/ simTime' = 0)]_vars
  /\ [][iPc = "loop" /\ iPc' # "loop" =>
          IF clicks < 1 THEN iPc' = "advance" ELSE iPc' = "delete"]_vars
  /\ [][iPc' = "delete" /\ iPc # "delete" => iPc = "loop" /\ clicks >= 1]_vars
  /\ [](iPc \in {"delete", "done"} => clicks >= 1)
  /\ [](iPc = "done" => ~button)
  /\ [][clicks >= 1 /\ iPc \in {"loop", "delete"} => simTime' = simTime]_vars
  /\ (iPc \in {"loop", "advance"} /\ clicks >= 1) ~> (iPc = "done" /\ ~button)

\* The loop ran, a click came during an advance, and the script ended.
C5_Witness ==
  iPc = "done" /\ ~button /\ clicks >= 1 /\ simTime >= 4


\* C6: a completed converter run wrote one descriptor, once, as its last
\* act, at the path made of the input mesh's directory and base name with
\* the extension ".sdf"; nothing else of the run wrote to that path, and
\* no descriptor is on disk from a run that has not completed.
C6_OneDescriptorWrite ==
  /\ cPc = "done" =>
       LET writes == EventsOf("write_sdf")
           p == writes[1].path
       IN /\ Len(writes) = 1
          /\ log[Len(log)].op = "write_sdf"
          /\ p = ExpectedSdf(args.mesh_file)
          /\ PathSplit(p)[1] = PathSplit(mesh_path)[1]
          /\ PathSplitExt(PathSplit(p)[2])
               = <<PathSplitExt(PathSplit(mesh_path)[2])[1], SdfExt>>
          /\ {q \in WrittenByRun : fs[q].content.kind = "sdf"} = {p}
          /\ \A i \in 1..Len(log) : log[i].path = p => i = Len(log)
  /\ cPc \notin {"done", "idle"} =>
       /\ EventsOf("write_sdf") = <<>>
       /\ {q \in WrittenByRun : fs[q].content.kind = "sdf"} = {}

\* A run on the mesh in the root directory, given by a relative path, with
\* visual simplification and pieces, has written its descriptor.
C6_Witness ==
  /\ cPc = "done" /\ args.mesh_file = ArgC
  /\ args.do_visual_simplification /\ Len(out_paths) >= 1
  /\ fs[ExpectedSdf(ArgC)].writer = runs

\* The pair of axes the n-th inertia element stands for.
RowOf == <<1, 1, 1, 2, 2, 3>>
ColOf == <<1, 2, 3, 2, 3, 3>>

\* C7: the inertial element holds exactly the six elements ixx, ixy, ixz,
\* iyy, iyz, izz, in that order, the element for axes (i,j), i <= j, being
\* the formatted entry (i,j) of the computed tensor; the document written
\* carries that element.
C7_InertiaUpperTriangle ==
  /\ Len(link_item) >= 2 =>
       LET el == link_item[2]
       IN /\ el.tag = "inertial"
          /\ Len(el.inertia) = 6
          /\ \A n \in 1..6 :
               /\ el.inertia[n].tag = <<"i", Xyz[RowOf[n]], Xyz[ColOf[n]]>>
               /\ el.inertia[n].text
                    = SciFormat(args.params.density
                                  * mesh.inertia[RowOf[n]][ColOf[n]])
  /\ cPc = "done" => fs[SdfPath(mesh_path)].content.children[2] = link_item[2]

\* A completed run on a mesh whose tensor came back with unequal (1,2) and
\* (2,1) entries.
C7_Witness ==
  /\ cPc = "done"
  /\ mesh.inertia[1][2] # mesh.inertia[2][1]
  /\ fs[SdfPath(mesh_path)].content.children[2].inertia[2].text
       = SciFormat(args.params.density * mesh.inertia[1][2])

\* C8: piece k of the decomposition is exported, in order, to
\* <mesh-dir>/<mesh-name>_parts/<mesh-name>_convex_piece_<k, 3 digits>.obj;
\* the piece paths are pairwise distinct; the k-th collision element of the
\* descriptor is named collision_<k, 4 digits> and its uri is the piece's
\* path relative to the descriptor's directory.
C8_PieceNaming ==
  /\ cPc \in {"export", "done", "aborted"} =>
       /\ \A k \in 1..Len(out_paths) :
            /\ out_paths[k] = ExpectedPiecePrefix(args.mesh_file)
                                \o <<"0", "0", OneDigit[k]>> \o ObjExt
            /\ fs[out_paths[k]] = [content |-> convex_pieces[k], writer |-> runs]
       /\ \A j, k \in 1..Len(out_paths) : j # k => out_paths[j] # out_paths[k]
  /\ cPc = "done" =>
       LET d == SdfPath(mesh_path)
           cols == ItemsOf(fs[d].content.children, "collision")
       IN /\ Len(cols) = Len(convex_pieces)
          /\ Len(out_paths) = Len(convex_pieces)
          /\ \A k \in 1..Len(cols) :
               /\ cols[k].name = CollisionPrefix \o <<"0", "0", "0", OneDigit[k]>>
               /\ cols[k].uri = ExpectedUriPrefix(args.mesh_file)
                                  \o <<"0", "0", OneDigit[k]>> \o ObjExt
               /\ Referenced(d, cols[k].uri) = out_paths[k]

\* A completed run, on the mesh in the root directory, with two pieces.
C8_Witness ==
  /\ cPc = "done" /\ args.mesh_file = ArgC /\ Len(out_paths) = 2
  /\ Len(ItemsOf(fs[SdfPath(mesh_path)].content.children, "collision")) = 2

\* C9: a failure of loading, of the inertia computation, of the visual
\* decimation or of a piece's export is caught by nothing and ends the run
\* with no descriptor written; a run that wrote the descriptor did so last,
\* after loading, inertia, the visual simplification asked for and the
\* export of every piece; a decimation failure comes before the parts
\* directory is made and before the decomposition is called.
C9_AbortBeforeDescriptor ==
  /\ uncaught # "" => cPc = "aborted"
  /\ cPc = "aborted" =>
       /\ uncaught \in {"load", "inertia", "decimation", "export"}
       /\ exitCode # 0
       /\ EventsOf("write_sdf") = <<>>
       /\ SdfPath(mesh_path) \notin WrittenByRun
  /\ EventsOf("write_sdf") # <<>> =>
       /\ uncaught = ""
       /\ log[Len(log)].op = "write_sdf"
       /\ log[1].op = "load" /\ log[2].op = "inertia"
       /\ args.do_visual_simplification =>
            /\ log[3].op = "write_visual"
            /\ OutputMeshPath(mesh_path) \in WrittenByRun
       /\ Len(EventsOf("decompose")) = 1
       /\ Len(EventsOf("export")) = Len(convex_pieces)
       /\ \A k \in 1..Len(convex_pieces) :
            /\ out_paths[k] \in WrittenByRun
            /\ fs[out_paths[k]].content = convex_pieces[k]
  /\ uncaught = "decimation" =>
       /\ EventsOf("makedirs") = <<>>
       /\ EventsOf("decompose") = <<>>
       /\ EventsOf("export") = <<>>

\* A run ended by the failure of the export of its second piece.
C9_Witness ==
  cPc = "aborted" /\ uncaught = "export" /\ Len(out_paths) = 1

\* The piece files the descriptor at path d refers to.
ReferencedPieces(d) ==
  {Referenced(d, c.uri) : c \in Range(ItemsOf(fs[d].content.children, "collision"))}

CompletedRuns == {h.run : h \in history}

\* C10, as first stated: between runs, every piece file a descriptor on disk
\* refers to exists and was written by the run that wrote the descriptor.
C10_Original ==
  cPc = "idle" =>
    \A d \in Descriptors : \A p \in ReferencedPieces(d) :
      Exists(p) /\ fs[p].writer = fs[d].writer

\* C10, amended: every piece file a descriptor on disk refers to exists and
\* was written by the run that wrote the descriptor, or by a later run that
\* has written no descriptor (one ended by an uncaught failure after it
\* had exported that piece); no file older than the descriptor is referred
\* to.
C10_ReferencedPiecesNotOlder ==
  \A d \in Descriptors :
    /\ \A p \in ReferencedPieces(d) :
         /\ Exists(p)
         /\ \/ fs[p].writer = fs[d].writer
            \/ fs[p].writer > fs[d].writer /\ fs[p].writer \notin CompletedRuns
    /\ \A p \in DOMAIN fs : fs[p].writer < fs[d].writer => p \notin ReferencedPieces(d)

\* Between runs, a descriptor refers to a piece that a later, aborted run
\* wrote, beside a piece of its own run.
C10_Witness ==
  /\ cPc = "idle"
  /\ \E d \in Descriptors :
       /\ \E p \in ReferencedPieces(d) : fs[p].writer > fs[d].writer
       /\ \E p \in ReferencedPieces(d) : fs[p].writer = fs[d].writer

====
